---- MODULE Spec2Model ----
(***************************************************************************)
(* packer-provisioner-deno: the Deno provisioner plugin for Packer.        *)
(*                                                                         *)
(* The repository holds two revisions of the provisioner: src/main.go      *)
(* (install, upload, run) and src/unnamed/part_003 (the same, preceded by  *)
(* a local `deno bundle` of every script and with target_deno_version).    *)
(* Both are `package main`; the variable `build` says which one runs.      *)
(*                                                                         *)
(* A path is a sequence of components and a component is a sequence of     *)
(* string pieces (so that "x.ts" + ".bundle.js" is <<"x.ts",".bundle.js">>)*)
(* An absolute path starts with the root component <<"/">>.                *)
(***************************************************************************)
EXTENDS Integers, Sequences, FiniteSets, TLC

\* The longest scripts list a configuration holds.
MaxScripts == 2

VARIABLES
    build,          \* "main" (src/main.go) or "bundling" (src/unnamed/part_003)
    config,         \* Provisioner.config (DenoConfig)
    pc,             \* where the plugin is: Prepare, then the steps of Provision
    prepErrs,       \* the errors Prepare returned (packer.MultiError.Errors)
    i,              \* index of the running `for ... range` loop of Provision
    bundles,        \* Provision's local `bundles`
    remoteScripts,  \* Provision's local `remoteScripts`
    tmpCount,       \* temporary directories ioutil.TempDir has created
    openFiles,      \* local files opened by os.Open and not closed
    written,        \* bundle files the bundler has left on the local disk
    ops,            \* calls made to the collaborators, in order, with results
    ret,            \* what Provision returned
    cancelled,      \* the host has called Cancel
    ui,             \* what Provision has sent to the packer.Ui, in order
    exitStatus,     \* exit status of the plugin process, -1 while it lives
    otherBundles,   \* bundle paths other runs on this host got from BundlePath
    target,         \* the target machine: is curl there, which package managers
    sh              \* the run of /tmp/install_curl.sh on the target

\* What is outside this run of the plugin.
world == <<otherBundles, target, sh>>

vars == <<build, config, pc, prepErrs, i, bundles, remoteScripts, tmpCount,
          openFiles, written, ops, ret, cancelled, ui, exitStatus, world>>

----------------------------------------------------------------------------
(* Paths (path/filepath on a host whose separator is '/').                 *)

Root == <<"/">>

P2(a, b) == <<Root, <<a>>, <<b>>>>

\* filepath.IsAbs
IsAbs(p) == Len(p) > 0 /\ p[1] = Root

\* filepath.Base: the last element of the path
Base(p) == IF Len(p) = 0 THEN <<".">> ELSE p[Len(p)]

\* filepath.Dir: all but the last element of the path
Dir(p) == IF Len(p) <= 1 THEN p ELSE SubSeq(p, 1, Len(p) - 1)

\* filepath.Join(dir, name) for one file name
Join(dir, name) == dir \o <<name>>

\* filepath.ToSlash replaces the host separator by '/'; a path is held as its
\* components, which the replacement leaves as they are.
ToSlash(p) == p

----------------------------------------------------------------------------
(* The local file system seen by os.Stat.                                  *)

ScriptX1 == P2("a", "x.ts")
ScriptX2 == P2("b", "x.ts")      \* same base name as ScriptX1
ScriptDir == P2("a", "lib")       \* a directory
ScriptPipe == P2("a", "fifo")     \* a named pipe
ScriptGone == P2("a", "gone.ts")  \* does not exist

ScriptPaths == {ScriptX1, ScriptX2, ScriptDir, ScriptPipe, ScriptGone}

DenoBinOk == P2("build", "deno")
DenoBinGone == P2("build", "nodeno")

\* The temporary directories of ioutil.TempDir("", "packer-provisioner-deno"):
\* the n-th directory created on this host.
TempSuffixes == <<"001", "002", "003", "004", "005">>
TempDirOf(n) == <<Root, <<"tmp">>, <<"packer-provisioner-deno", TempSuffixes[n]>>>>

IsBundlePath(p) == Len(p) = 4 /\ Len(p[4]) = 2 /\ p[4][2] = ".bundle.js"

\* The kind of a local source path: "regular", "dir", "other" or "missing".
SourceKind(p) ==
    CASE p \in {ScriptX1, ScriptX2, DenoBinOk} -> "regular"
      [] p = ScriptDir -> "dir"
      [] p = ScriptPipe -> "other"
      [] OTHER -> "missing"

\* os.Stat: a bundle path holds a regular file when the bundler wrote one.
Stat(p) ==
    IF IsBundlePath(p)
    THEN (IF p \in written THEN "regular" ELSE "missing")
    ELSE SourceKind(p)

----------------------------------------------------------------------------
(* Commands, errors and the record of collaborator calls.                  *)

NoPath == <<>>
NoCmd == [name |-> "", exe |-> NoPath, arg |-> NoPath, version |-> ""]

InstallCurlPath == P2("tmp", "install_curl.sh")
InstallCurlBuf == <<<<"installCurlScript">>>>   \* the in-memory script text

\* createDir without the -p flag.
MkdirCmdNoParents(dir) ==
    [name |-> "mkdir", exe |-> NoPath, arg |-> dir, version |-> ""]

\* "mkdir -p '%s'"
MkdirCmd(dir) == [name |-> "mkdir -p", exe |-> NoPath, arg |-> dir, version |-> ""]
\* "sh /tmp/install_curl.sh"
ShCurlCmd == [name |-> "sh", exe |-> NoPath, arg |-> InstallCurlPath, version |-> ""]
\* "chmod +x %s"
ChmodCmd(path) == [name |-> "chmod +x", exe |-> NoPath, arg |-> path, version |-> ""]
\* runDeno with the format string of its commented-out line ("%s -A %s").
RunDenoCmdNoRun(exe, script) ==
    [name |-> "-A", exe |-> exe, arg |-> script, version |-> ""]

\* runDeno calling the deno of the remote PATH.
RunDenoCmdFromPath(exe, script) ==
    [name |-> "run -A", exe |-> <<<<"deno">>>>, arg |-> script, version |-> ""]

\* "%s run -A %s"
RunDenoCmd(exe, script) == [name |-> "run -A", exe |-> exe, arg |-> script, version |-> ""]

NoErr == [chain |-> <<>>, code |-> 0, path |-> NoPath, cmd |-> NoCmd]
Err(chain) == [chain |-> chain, code |-> 0, path |-> NoPath, cmd |-> NoCmd]

RunOp(cmd, out) ==
    [op |-> "run", cmd |-> cmd, dst |-> NoPath, src |-> NoPath,
     ok |-> (~out.err /\ out.code = 0), code |-> out.code]
UploadOp(dst, src, ok) ==
    [op |-> "upload", cmd |-> NoCmd, dst |-> dst, src |-> src, ok |-> ok, code |-> 0]

\* What a remote command can do: fail to run, or exit with a status.
ExitStatuses == {0, 1, 2}
RunOutcomes == {[err |-> TRUE, code |-> 0]} \cup
               {[err |-> FALSE, code |-> c] : c \in ExitStatuses}

\* A local call: ioutil.TempDir or the `deno bundle` subprocess.
LocalOp(name, src, out, ok) ==
    [op |-> name, cmd |-> NoCmd, dst |-> out, src |-> src, ok |-> ok, code |-> 0]

\* The msg argument of execRemoteCommand: a fixed label, or (runDeno) the
\* command string itself.
Label(t) == [text |-> t, cmd |-> NoCmd]
CmdMsg(c) == [text |-> "", cmd |-> c]

\* execRemoteCommand without its check of cmd.ExitStatus().
execRemoteCommandNoExitCheck(out, msg) ==
    IF out.err
    THEN [chain |-> <<"error %s: %v", msg.text, "RunWithUi error">>,
          code |-> 0, path |-> NoPath, cmd |-> msg.cmd]
    ELSE [chain |-> <<>>, code |-> 0, path |-> NoPath, cmd |-> NoCmd]

\* execRemoteCommand: the error it returns for the outcome of cmd.RunWithUi.
execRemoteCommand(out, msg) ==
    IF out.err
    THEN [chain |-> <<"error %s: %v", msg.text, "RunWithUi error">>,
          code |-> 0, path |-> NoPath, cmd |-> msg.cmd]
    ELSE IF out.code # 0
    THEN [chain |-> <<"%s non-zero exit status: %v", msg.text>>,
          code |-> out.code, path |-> NoPath, cmd |-> msg.cmd]
    ELSE NoErr

----------------------------------------------------------------------------
(* Prepare.                                                                *)

DefaultRemoteFolder == P2("tmp", "packer-deno")
DenoExecutable == <<Root, <<"root">>, <<".local">>, <<"bin">>, <<"deno">>>>

PErr(msg, path) == [msg |-> msg, path |-> path]

\* The checks on local_deno_bin with the skip_install check made only when
\* os.Stat fails.
LocalBinErrsNested(cfg) ==
    IF cfg.LocalDenoBin # NoPath /\ Stat(cfg.LocalDenoBin) = "missing"
    THEN <<PErr("bad path to local deno binary", cfg.LocalDenoBin)>>
         \o
         (IF cfg.SkipInstall
          THEN <<PErr("if local_deno_bin is set, skip_install cannot be true", NoPath)>>
          ELSE <<>>)
    ELSE <<>>

\* The checks on local_deno_bin.
LocalBinErrs(cfg) ==
    IF cfg.LocalDenoBin # NoPath
    THEN (IF Stat(cfg.LocalDenoBin) = "missing"
          THEN <<PErr("bad path to local deno binary", cfg.LocalDenoBin)>>
          ELSE <<>>)
         \o
         (IF cfg.SkipInstall
          THEN <<PErr("if local_deno_bin is set, skip_install cannot be true", NoPath)>>
          ELSE <<>>)
    ELSE <<>>

\* The check on the fixed remote executable path.
ExecutableErrs(cfg) ==
    IF ~IsAbs(cfg.denoExecutable)
    THEN <<PErr("remote target denoExecutable must be an absolute path", NoPath)>>
    ELSE <<>>

\* Prepare without the check that there is a script.
NoScriptErrsNone(cfg) == <<>>

\* The check that there is a script.
NoScriptErrs(cfg) ==
    IF Len(cfg.Scripts) = 0
    THEN <<PErr("at least one script must be specified", NoPath)>>
    ELSE <<>>

\* The script check leaving the loop at the first bad path.
BadScriptErrsFirstOnly(scripts) ==
    LET bad == {k \in 1..Len(scripts) : Stat(scripts[k]) = "missing"} IN
    IF bad = {} THEN <<>>
    ELSE <<PErr("bad script", scripts[CHOOSE k \in bad : \A h \in bad : k <= h])>>

\* One error for every script path os.Stat fails on, in order.
RECURSIVE BadScriptErrs(_)
BadScriptErrs(scripts) ==
    IF scripts = <<>> THEN <<>>
    ELSE (IF Stat(Head(scripts)) = "missing"
          THEN <<PErr("bad script", Head(scripts))>>
          ELSE <<>>) \o BadScriptErrs(Tail(scripts))

\* The configuration after the defaults of Prepare.
WithDefaults(cfg) ==
    [cfg EXCEPT !.RemoteFolder = IF @ = NoPath THEN DefaultRemoteFolder ELSE @,
                !.denoExecutable = DenoExecutable]

ValidationErrs(cfg) ==
    LocalBinErrs(cfg) \o ExecutableErrs(cfg) \o NoScriptErrs(cfg)
        \o BadScriptErrs(cfg.Scripts)

\* Prepare: decode the raw configuration (which may fail), apply the
\* defaults, collect every validation error.
Prepare ==
    /\ pc = "init"
    /\ \E decoded \in BOOLEAN :
         IF ~decoded
         THEN /\ prepErrs' = <<PErr("decode error", NoPath)>>
              /\ pc' = "rejected"
              /\ UNCHANGED config
         ELSE /\ config' = WithDefaults(config)
              /\ prepErrs' = ValidationErrs(config')
              /\ pc' = IF Len(prepErrs') > 0 THEN "rejected" ELSE "prepared"
    /\ UNCHANGED <<cancelled, exitStatus, world, build, i, bundles, remoteScripts, tmpCount, openFiles,
                   written, ops, ret, ui>>

----------------------------------------------------------------------------
(* Provision.                                                              *)

BundleCmd(src) == [name |-> "bundle", exe |-> <<<<"deno">>>>, arg |-> src, version |-> ""]
BundleOp(src, out, ok) ==
    [op |-> "bundle", cmd |-> BundleCmd(src), dst |-> out, src |-> src,
     ok |-> ok, code |-> 0]

BootstrapURL == <<<<"https://deno.land/x/install/install.sh">>>>

\* The bootstrap installer command without the version argument.
InstallerCmdNoVersion(version) ==
    [name |-> "curl -fsSL %s | sh", exe |-> NoPath, arg |-> BootstrapURL,
     version |-> ""]

\* The bootstrap installer command of curlInstallDeno.
InstallerCmd(version) ==
    IF version # ""
    THEN [name |-> "curl -fsSL %s | sh -s %s", exe |-> NoPath,
          arg |-> BootstrapURL, version |-> version]
    ELSE [name |-> "curl -fsSL %s | sh", exe |-> NoPath,
          arg |-> BootstrapURL, version |-> ""]

\* BundlePath putting every bundle into one directory.
BundlePathSharedDir(path, n) == Join(TempDirOf(1), Base(path) \o <<".bundle.js">>)

\* BundlePath: a fresh temporary directory (the n-th) joined with the file
\* name of the script followed by ".bundle.js".
BundlePath(path, n) == Join(TempDirOf(n), Base(path) \o <<".bundle.js">>)

\* The destination keeping the local directories of the script.
UploadDstKeepsDir(cfg, src) == ToSlash(cfg.RemoteFolder \o Tail(src))

\* The destination of a script upload.
UploadDst(cfg, src) == ToSlash(Join(cfg.RemoteFolder, Base(src)))

\* What the upload loop ranges over: the scripts, or their bundles.
Artifacts == IF build = "main" THEN config.Scripts ELSE bundles

\* The install branch taken without looking at skip_install.
InstallEntryIgnoresSkip(cfg) ==
    IF cfg.LocalDenoBin = NoPath THEN "curl_upload" ELSE "local_mkdir"

\* The install branch Provision takes.
InstallEntry(cfg) ==
    IF ~cfg.SkipInstall
    THEN (IF cfg.LocalDenoBin = NoPath THEN "curl_upload" ELSE "local_mkdir")
    ELSE "mkdir"

\* Provision going from the install branch straight to the upload loop.
AfterInstallNoMkdir == "upload"

\* Where Provision goes once the install branch has returned nil.
AfterInstall == "mkdir"

\* Provision running the scripts whatever skip_provision says.
AfterUploadIgnoresSkip(cfg, scripts) ==
    IF Len(scripts) = 0 THEN "done" ELSE "execute"

\* Where Provision goes after the upload loop.
AfterUpload(cfg, scripts) ==
    IF ~cfg.SkipProvision
    THEN (IF Len(scripts) = 0 THEN "done" ELSE "execute")
    ELSE "done"

\* The next position of a `for` loop over a list of length n that has just
\* finished iteration k, `after` being what follows the loop.
LoopNext(k, n, here, after) == IF k < n THEN here ELSE after

\* packer.Ui: Say and Message are the two calls Provision makes.
Say(t) == [kind |-> "say", text |-> t]
Message(t) == [kind |-> "message", text |-> t]

\* Provision reporting the error to the ui before it returns it.
ReportedAsError(e) ==
    IF e # NoErr THEN <<[kind |-> "error", text |-> e.chain[1]]>> ELSE <<>>

\* What Provision sends to the ui about the error it returns: nothing, every
\* `return fmt.Errorf(...)` hands the error to the caller alone.
Reported(e) == <<>>

\* Said on the way to the install branch.
InstallSays(cfg) ==
    <<Say("Provisioning with Deno")>>
    \o (IF cfg.SkipInstall THEN <<Message("Skipping Deno installation")>> ELSE <<>>)

\* Said after the upload loop.
AfterUploadSays(cfg) ==
    IF ~cfg.SkipProvision
    THEN <<Say("Running provisioning scripts")>>
    ELSE <<Say("Skipping provisioning scripts")>>

\* Provision returns error e, having said `said` since its last step.
Return(said, e) ==
    /\ pc' = "done"
    /\ ret' = [done |-> TRUE, err |-> e]
    /\ ui' = ui \o said \o Reported(e)

\* Provision goes on to `next` (or returns nil), having said `said`.
Goto(said, next) ==
    /\ pc' = next
    /\ ret' = IF next = "done" THEN [done |-> TRUE, err |-> NoErr] ELSE ret
    /\ ui' = ui \o said

\* uploadFile with the error of comm.Upload dropped.
uploadFileErrUnchecked(out, src) ==
    CASE out = "open_err" -> Err(<<"error opening: %s", "Open error">>)
      [] out = "close_err" -> Err(<<"Close error">>)
      [] OTHER -> NoErr

\* uploadFile: os.Open, comm.Upload, f.Close.
UploadOutcomes == {"open_err", "upload_err", "close_err", "ok"}

uploadFileErr(out, src) ==
    CASE out = "open_err" -> Err(<<"error opening: %s", "Open error">>)
      [] out = "upload_err" ->
            [chain |-> <<"error uploading %s: %s", "Upload error">>, code |-> 0,
             path |-> src, cmd |-> NoCmd]
      [] out = "close_err" -> Err(<<"Close error">>)
      [] OTHER -> NoErr

\* The comm.Upload call uploadFile makes, if it gets that far.
uploadFileOps(out, dst, src) ==
    IF out = "open_err" THEN <<>> ELSE <<UploadOp(dst, src, out # "upload_err")>>

\* The file uploadFile leaves open when it returns.
uploadFileOpen(out, src) == IF out = "upload_err" THEN {src} ELSE {}

\* Provision is called on a prepared provisioner.
ProvisionBegin ==
    /\ pc = "prepared"
    /\ i' = 1
    /\ LET bundling == IF build = "bundling"
                       THEN <<Say("Bundling script locally before upload")>>
                       ELSE <<>> IN
       IF build = "bundling" /\ Len(config.Scripts) > 0
       THEN Goto(bundling, "bundle")
       ELSE Goto(bundling \o InstallSays(config), InstallEntry(config))
    /\ UNCHANGED <<cancelled, exitStatus, world, build, config, prepErrs, bundles, remoteScripts, tmpCount,
                   openFiles, written, ops>>

BundleOutcomes == {"tempdir_err", "start_err", "wait_err", "ok", "ok_nofile"}

\* `deno bundle` cannot load a directory as a module: it exits with an error.
BundleOutcomesFor(src) ==
    IF Stat(src) = "dir" THEN BundleOutcomes \ {"ok", "ok_nofile"} ELSE BundleOutcomes

\* The bundling loop without its check of cmd.Wait.
BundleErrStartOnly(out, src) ==
    CASE out = "tempdir_err" -> Err(<<"TempDir error">>)
      [] out = "start_err" ->
            [chain |-> <<"could not run: deno bundle %s %s: %v", "Start error">>,
             code |-> 0, path |-> src, cmd |-> NoCmd]
      [] OTHER -> NoErr

\* The error one iteration of the bundling loop returns: from BundlePath,
\* from cmd.Start, from cmd.Wait, or none.
BundleErr(out, src) ==
    CASE out = "tempdir_err" -> Err(<<"TempDir error">>)
      [] out = "start_err" ->
            [chain |-> <<"could not run: deno bundle %s %s: %v", "Start error">>,
             code |-> 0, path |-> src, cmd |-> NoCmd]
      [] out = "wait_err" ->
            [chain |-> <<"error bundling %s: %v", "Wait error">>,
             code |-> 0, path |-> src, cmd |-> NoCmd]
      [] OTHER -> NoErr

\* One iteration of the bundling loop.
BundleScript ==
    /\ pc = "bundle"
    /\ LET src == config.Scripts[i] IN
       IF Stat(src) = "missing"
       THEN /\ Return(<<>>, Err(<<"stat error: %s", "Stat error">>))
            /\ UNCHANGED <<i, bundles, tmpCount, written, ops>>
       ELSE \E out \in BundleOutcomesFor(src) :
            LET e == BundleErr(out, src)
                bundle == BundlePath(src, tmpCount + 1)
                bundling == <<Message("bundling %s")>>
                output == bundling \o <<Say("bundle output: %s")>>
                last == i = Len(config.Scripts) IN
            IF out = "tempdir_err"
            THEN /\ ops' = Append(ops, LocalOp("tempdir", src, NoPath, FALSE))
                 /\ Return(bundling, e)
                 /\ UNCHANGED <<i, bundles, tmpCount, written>>
            ELSE /\ tmpCount' = tmpCount + 1
                 /\ ops' = ops \o <<LocalOp("tempdir", src, Dir(bundle), TRUE),
                                    BundleOp(src, bundle, out \in {"ok", "ok_nofile"})>>
                 /\ written' = IF out = "ok" THEN written \cup {bundle} ELSE written
                 /\ IF e # NoErr
                    THEN /\ Return(output, e)
                         /\ UNCHANGED <<i, bundles>>
                    ELSE /\ bundles' = Append(bundles, bundle)
                         /\ i' = IF i < Len(config.Scripts) THEN i + 1 ELSE 1
                         /\ Goto(output \o (IF last THEN InstallSays(config) ELSE <<>>),
                                 LoopNext(i, Len(config.Scripts), "bundle",
                                          InstallEntry(config)))
    /\ UNCHANGED <<cancelled, exitStatus, world, build, config, prepErrs, remoteScripts, openFiles>>

\* A remote command of the install branch whose failure is only reported.
InstallCommandWarnOnly(here, said, cmd, msg, wraps, next) ==
    /\ pc = here
    /\ \E out \in RunOutcomes :
         /\ ops' = Append(ops, RunOp(cmd, out))
         /\ Goto(said, next)
    /\ UNCHANGED <<cancelled, exitStatus, world, build, config, prepErrs, i, bundles, remoteScripts, tmpCount,
                   openFiles, written>>

\* One remote command of the install branch: run it, and go on or return.
InstallCommand(here, said, cmd, msg, wraps, next) ==
    /\ pc = here
    /\ \E out \in RunOutcomes :
         LET e == execRemoteCommand(out, msg) IN
         /\ ops' = Append(ops, RunOp(cmd, out))
         /\ IF e # NoErr
            THEN Return(said, [e EXCEPT !.chain = wraps \o @])
            ELSE Goto(said, next)
    /\ UNCHANGED <<cancelled, exitStatus, world, build, config, prepErrs, i, bundles, remoteScripts, tmpCount,
                   openFiles, written>>

\* curlInstallDeno with the error of comm.Upload dropped.
CurlUploadScriptUnchecked ==
    /\ pc = "curl_upload"
    /\ \E ok \in BOOLEAN :
         /\ ops' = Append(ops, UploadOp(InstallCurlPath, InstallCurlBuf, ok))
         /\ Goto(<<>>, "curl_script")
    /\ UNCHANGED <<cancelled, exitStatus, world, build, config, prepErrs, i, bundles, remoteScripts, tmpCount,
                   openFiles, written>>

\* curlInstallDeno: upload the curl install script.
CurlUploadScript ==
    /\ pc = "curl_upload"
    /\ \E ok \in BOOLEAN :
         /\ ops' = Append(ops, UploadOp(InstallCurlPath, InstallCurlBuf, ok))
         /\ IF ~ok
            THEN Return(<<>>, Err(<<"error installing deno: %s",
                                    "error uploading curl install script: %v",
                                    "Upload error">>))
            ELSE Goto(<<>>, "curl_script")
    /\ UNCHANGED <<cancelled, exitStatus, world, build, config, prepErrs, i, bundles, remoteScripts, tmpCount,
                   openFiles, written>>

\* curlInstallDeno: execute the curl install script.
CurlRunScript ==
    InstallCommand("curl_script", <<>>, ShCurlCmd, Label("curl install script"),
                   <<"error installing deno: %s">>, "curl_installer")

\* curlInstallDeno: download and execute the deno installer script.
CurlInstaller ==
    InstallCommand("curl_installer",
                   <<Message("Downloading and executing deno installer script")>>,
                   InstallerCmd(IF build = "main" THEN "" ELSE config.TargetDenoVersion),
                   Label("installer script"),
                   <<"error installing deno: %s">>, AfterInstall)

\* localBinInstallDeno: create the directory of the executable.
LocalMkdir ==
    InstallCommand("local_mkdir", <<Message("Creating directory: %s")>>,
                   MkdirCmd(Dir(config.denoExecutable)),
                   Label("create dir"),
                   <<"error installing deno: %s",
                     "mkdir for local deno bin on remote machine: %v">>,
                   "local_upload")

\* localBinInstallDeno uploading the binary into remote_folder.
LocalUploadToRemoteFolder ==
    /\ pc = "local_upload"
    /\ \E out \in UploadOutcomes :
         LET e == uploadFileErr(out, config.LocalDenoBin) IN
         /\ ops' = ops \o uploadFileOps(out, UploadDst(config, config.LocalDenoBin),
                                        config.LocalDenoBin)
         /\ openFiles' = openFiles \cup uploadFileOpen(out, config.LocalDenoBin)
         /\ IF e # NoErr
            THEN Return(<<>>, [e EXCEPT !.chain = <<"error installing deno: %s",
                                                    "upload local deno bin: %v">> \o @])
            ELSE Goto(<<>>, "local_chmod")
    /\ UNCHANGED <<cancelled, exitStatus, world, build, config, prepErrs, i, bundles, remoteScripts, tmpCount,
                   written>>

\* localBinInstallDeno: upload the local binary.
LocalUpload ==
    /\ pc = "local_upload"
    /\ \E out \in UploadOutcomes :
         LET e == uploadFileErr(out, config.LocalDenoBin) IN
         /\ ops' = ops \o uploadFileOps(out, config.denoExecutable, config.LocalDenoBin)
         /\ openFiles' = openFiles \cup uploadFileOpen(out, config.LocalDenoBin)
         /\ IF e # NoErr
            THEN Return(<<>>, [e EXCEPT !.chain = <<"error installing deno: %s",
                                                    "upload local deno bin: %v">> \o @])
            ELSE Goto(<<>>, "local_chmod")
    /\ UNCHANGED <<cancelled, exitStatus, world, build, config, prepErrs, i, bundles, remoteScripts, tmpCount,
                   written>>

\* localBinInstallDeno: set the executable bit.
LocalChmod ==
    InstallCommand("local_chmod", <<>>, ChmodCmd(config.denoExecutable),
                   Label("set executable bit"),
                   <<"error installing deno: %s">>, AfterInstall)

\* Provision: create the remote folder.
CreateRemoteDir ==
    /\ pc = "mkdir"
    /\ \E out \in RunOutcomes :
         LET e == execRemoteCommand(out, Label("create dir"))
             said == <<Say("Uploading deno scripts..."),
                       Message("Creating directory: %s")>> IN
         /\ ops' = Append(ops, RunOp(MkdirCmd(config.RemoteFolder), out))
         /\ IF e # NoErr
            THEN Return(said, [e EXCEPT !.chain =
                                   <<"error creating remote directory: %s">> \o @])
            ELSE Goto(said \o (IF Len(Artifacts) = 0 THEN AfterUploadSays(config)
                                ELSE <<>>),
                      LoopNext(0, Len(Artifacts), "upload",
                               AfterUpload(config, remoteScripts)))
    /\ i' = 1
    /\ UNCHANGED <<cancelled, exitStatus, world, build, config, prepErrs, bundles, remoteScripts, tmpCount,
                   openFiles, written>>

\* os.FileMode.IsRegular taken as "a file or a directory".
IsRegularOrDir(kind) == kind \in {"regular", "dir"}

\* os.FileMode.IsRegular taken as "not a directory".
IsRegularOrSpecial(kind) == kind \in {"regular", "other"}

\* os.FileMode.IsRegular
IsRegular(kind) == kind = "regular"

\* One iteration of the upload loop.
UploadScript ==
    /\ pc = "upload"
    /\ LET src == Artifacts[i]
           kind == Stat(src) IN
       CASE kind = "missing" ->
              /\ Return(<<>>, Err(<<"stat error: %s", "Stat error">>))
              /\ UNCHANGED <<i, remoteScripts, openFiles, ops>>
         [] IsRegular(kind) ->
              \E out \in UploadOutcomes :
                LET dst == UploadDst(config, src)
                    e == uploadFileErr(out, src)
                    said == <<Message("Uploading %s")>>
                    last == i = Len(Artifacts) IN
                /\ ops' = ops \o uploadFileOps(out, dst, src)
                /\ openFiles' = openFiles \cup uploadFileOpen(out, src)
                /\ IF e # NoErr
                   THEN /\ Return(said, [e EXCEPT !.chain =
                                       <<"error uploading deno script: %s">> \o @])
                        /\ UNCHANGED <<i, remoteScripts>>
                   ELSE /\ remoteScripts' = Append(remoteScripts, dst)
                        /\ i' = IF i < Len(Artifacts) THEN i + 1 ELSE 1
                        /\ Goto(said \o (IF last THEN AfterUploadSays(config) ELSE <<>>),
                                LoopNext(i, Len(Artifacts), "upload",
                                         AfterUpload(config, remoteScripts')))
         [] kind = "dir" ->
              /\ Return(<<>>, [chain |-> <<"%s is a directory, expected deno script">>,
                               code |-> 0, path |-> src, cmd |-> NoCmd])
              /\ UNCHANGED <<i, remoteScripts, openFiles, ops>>
         [] OTHER ->
              /\ Return(<<>>, [chain |-> <<"%s is not a regular file">>,
                               code |-> 0, path |-> src, cmd |-> NoCmd])
              /\ UNCHANGED <<i, remoteScripts, openFiles, ops>>
    /\ UNCHANGED <<cancelled, exitStatus, world, build, config, prepErrs, bundles, tmpCount, written>>

\* The execution loop running a failed script again.
RunScriptRetries ==
    /\ pc = "execute"
    /\ \E out \in RunOutcomes :
         LET cmd == RunDenoCmd(config.denoExecutable, remoteScripts[i])
             e == execRemoteCommand(out, CmdMsg(cmd)) IN
         /\ ops' = Append(ops, RunOp(cmd, out))
         /\ IF e # NoErr
            THEN /\ Goto(<<Say("%s run -A %s")>>, "execute")
                 /\ UNCHANGED i
            ELSE /\ i' = IF i < Len(remoteScripts) THEN i + 1 ELSE 1
                 /\ Goto(<<Say("%s run -A %s")>>,
                         LoopNext(i, Len(remoteScripts), "execute", "done"))
    /\ UNCHANGED <<cancelled, exitStatus, world, build, config, prepErrs, bundles,
                   remoteScripts, tmpCount, openFiles, written>>

\* The execution loop going on to the next script after a failed one.
RunScriptBestEffort ==
    /\ pc = "execute"
    /\ \E out \in RunOutcomes :
         LET cmd == RunDenoCmd(config.denoExecutable, remoteScripts[i]) IN
         /\ ops' = Append(ops, RunOp(cmd, out))
         /\ i' = IF i < Len(remoteScripts) THEN i + 1 ELSE 1
         /\ Goto(<<Say("%s run -A %s")>>,
                 LoopNext(i, Len(remoteScripts), "execute", "done"))
    /\ UNCHANGED <<cancelled, exitStatus, world, build, config, prepErrs, bundles,
                   remoteScripts, tmpCount, openFiles, written>>

\* The execution loop running the local paths instead of the remote ones.
RunScriptLocalPath ==
    /\ pc = "execute"
    /\ \E out \in RunOutcomes :
         LET cmd == RunDenoCmd(config.denoExecutable, Artifacts[i])
             e == execRemoteCommand(out, CmdMsg(cmd)) IN
         /\ ops' = Append(ops, RunOp(cmd, out))
         /\ IF e # NoErr
            THEN /\ Return(<<Say("%s run -A %s")>>,
                           [e EXCEPT !.chain = <<"error running deno: %s">> \o @])
                 /\ UNCHANGED i
            ELSE /\ i' = IF i < Len(remoteScripts) THEN i + 1 ELSE 1
                 /\ Goto(<<Say("%s run -A %s")>>,
                         LoopNext(i, Len(remoteScripts), "execute", "done"))
    /\ UNCHANGED <<cancelled, exitStatus, world, build, config, prepErrs, bundles,
                   remoteScripts, tmpCount, openFiles, written>>

\* runDeno for one iteration of the execution loop.
RunScript ==
    /\ pc = "execute"
    /\ \E out \in RunOutcomes :
         LET cmd == RunDenoCmd(config.denoExecutable, remoteScripts[i])
             e == execRemoteCommand(out, CmdMsg(cmd)) IN
         /\ ops' = Append(ops, RunOp(cmd, out))
         /\ IF e # NoErr
            THEN /\ Return(<<Say("%s run -A %s")>>,
                           [e EXCEPT !.chain = <<"error running deno: %s">> \o @])
                 /\ UNCHANGED i
            ELSE /\ i' = IF i < Len(remoteScripts) THEN i + 1 ELSE 1
                 /\ Goto(<<Say("%s run -A %s")>>,
                         LoopNext(i, Len(remoteScripts), "execute", "done"))
    /\ UNCHANGED <<cancelled, exitStatus, world, build, config, prepErrs, bundles, remoteScripts, tmpCount,
                   openFiles, written>>

\* The positions at which Provision is running, blocked in its next call.
Running ==
    {"bundle", "curl_upload", "curl_script", "curl_installer", "local_mkdir",
     "local_upload", "local_chmod", "mkdir", "upload", "execute"}

\* Cancel that only notes the request and lets Provision go on.
CancelWithoutExit ==
    /\ pc \in Running
    /\ ~cancelled
    /\ cancelled' = TRUE
    /\ UNCHANGED <<world, exitStatus, pc, ret, build, config, prepErrs, i, bundles,
                   remoteScripts, tmpCount, openFiles, written, ops, ui>>

\* Cancel, called by the host while Provision runs: os.Exit(0).
Cancel ==
    /\ pc \in Running
    /\ cancelled' = TRUE
    /\ exitStatus' = 0
    /\ pc' = "exited"
    /\ UNCHANGED <<world, ret, build, config, prepErrs, i, bundles, remoteScripts,
                   tmpCount, openFiles, written, ops, ui>>

----------------------------------------------------------------------------
(* Other runs of the plugin on the same host.                              *)

\* How many bundle paths other runs allocate while this run is bundling.
MaxOtherBundles == 1

\* Another run of the plugin calls BundlePath: ioutil.TempDir makes the next
\* temporary directory of the host.
OtherRunBundlePath ==
    /\ build = "bundling"
    /\ pc \in {"prepared", "bundle"}
    /\ Cardinality(otherBundles) < MaxOtherBundles
    /\ \E src \in {ScriptX1} :
         otherBundles' = otherBundles \cup {BundlePath(src, tmpCount + 1)}
    /\ tmpCount' = tmpCount + 1
    /\ UNCHANGED <<target, sh, build, config, pc, prepErrs, i, bundles,
                   remoteScripts, openFiles, written, ops, ret, cancelled, ui,
                   exitStatus>>

----------------------------------------------------------------------------
(* installCurlScript, run by `sh /tmp/install_curl.sh` on the target.      *)

\* The package managers in the order of the if/elif chain.
PackageManagers == <<"apt-get", "yum", "apk">>

ShIdle == [pc |-> "idle", pm |-> "", used |-> <<>>, exit |-> -1]
ShCommand(pm, verb, ok) == [pm |-> pm, verb |-> verb, ok |-> ok]

\* The if/elif chain probing yum before apt-get.
SelectManagerYumFirst(managers) ==
    IF "yum" \in managers THEN "yum"
    ELSE IF "apt-get" \in managers THEN "apt-get"
    ELSE IF "apk" \in managers THEN "apk"
    ELSE ""

\* The if/elif chain of `[ -x "$(command -v ...)" ]` probes.
SelectManager(managers) ==
    IF "apt-get" \in managers THEN "apt-get"
    ELSE IF "yum" \in managers THEN "yum"
    ELSE IF "apk" \in managers THEN "apk"
    ELSE ""

\* if ! [ -x "$(command -v curl)" ]
ShProbeCurl ==
    /\ sh.pc = "start"
    /\ sh' = [sh EXCEPT !.pc = IF target.curl THEN "check" ELSE "select"]
    /\ UNCHANGED <<target, otherBundles, build, config, pc, prepErrs, i, bundles,
                   remoteScripts, tmpCount, openFiles, written, ops, ret,
                   cancelled, ui, exitStatus>>

\* The probes of the package managers; `exit 1` when there is none.
ShSelectManager ==
    /\ sh.pc = "select"
    /\ LET pm == SelectManager(target.managers) IN
       sh' = CASE pm = "" -> [sh EXCEPT !.pc = "exit", !.exit = 1]
               [] pm = "apk" -> [sh EXCEPT !.pc = "install", !.pm = pm]
               [] OTHER -> [sh EXCEPT !.pc = "update", !.pm = pm]
    /\ UNCHANGED <<target, otherBundles, build, config, pc, prepErrs, i, bundles,
                   remoteScripts, tmpCount, openFiles, written, ops, ret,
                   cancelled, ui, exitStatus>>

\* `apt-get update` or `yum update`; the script does not look at the result.
ShUpdate ==
    /\ sh.pc = "update"
    /\ \E ok \in BOOLEAN :
         sh' = [sh EXCEPT !.pc = "install",
                          !.used = Append(@, ShCommand(sh.pm, "update", ok))]
    /\ UNCHANGED <<target, otherBundles, build, config, pc, prepErrs, i, bundles,
                   remoteScripts, tmpCount, openFiles, written, ops, ret,
                   cancelled, ui, exitStatus>>

\* `apt-get install -y curl`, `yum install -y curl` or
\* `apk add --no-cache curl`; curl is there afterwards if it worked.
ShInstall ==
    /\ sh.pc = "install"
    /\ \E ok \in BOOLEAN :
         /\ sh' = [sh EXCEPT !.pc = "check",
                             !.used = Append(@, ShCommand(sh.pm, "install", ok))]
         /\ target' = [target EXCEPT !.curl = ok]
    /\ UNCHANGED <<otherBundles, build, config, pc, prepErrs, i, bundles,
                   remoteScripts, tmpCount, openFiles, written, ops, ret,
                   cancelled, ui, exitStatus>>

\* The script without its last `if`.
ShCheckAlwaysZero ==
    /\ sh.pc = "check"
    /\ sh' = [sh EXCEPT !.pc = "exit", !.exit = 0]
    /\ UNCHANGED <<target, otherBundles, build, config, pc, prepErrs, i, bundles,
                   remoteScripts, tmpCount, openFiles, written, ops, ret,
                   cancelled, ui, exitStatus>>

\* The last `if`: exit 1 when curl is still not there, else the script ends.
ShCheck ==
    /\ sh.pc = "check"
    /\ sh' = [sh EXCEPT !.pc = "exit", !.exit = IF target.curl THEN 0 ELSE 1]
    /\ UNCHANGED <<target, otherBundles, build, config, pc, prepErrs, i, bundles,
                   remoteScripts, tmpCount, openFiles, written, ops, ret,
                   cancelled, ui, exitStatus>>

\* The remote shell starts the script curlInstallDeno has asked it to run.
ShLaunch ==
    /\ pc = "curl_script"
    /\ sh.pc = "idle"
    /\ sh' = [sh EXCEPT !.pc = "start"]
    /\ UNCHANGED <<target, otherBundles, build, config, pc, prepErrs, i, bundles,
                   remoteScripts, tmpCount, openFiles, written, ops, ret,
                   cancelled, ui, exitStatus>>

\* What cmd.RunWithUi gives for "sh /tmp/install_curl.sh" on this target: an
\* error of the communicator, or the exit status of the script once it has
\* exited.
ScriptOutcomes ==
    {[err |-> TRUE, code |-> 0]}
    \cup (IF sh.pc = "exit" THEN {[err |-> FALSE, code |-> sh.exit]} ELSE {})

\* curlInstallDeno: execute the curl install script, on this target.
CurlRunScriptOnTarget ==
    /\ pc = "curl_script"
    /\ sh.pc # "idle"
    /\ \E out \in ScriptOutcomes :
         LET e == execRemoteCommand(out, Label("curl install script")) IN
         /\ ops' = Append(ops, RunOp(ShCurlCmd, out))
         /\ IF e # NoErr
            THEN Return(<<>>, [e EXCEPT !.chain = <<"error installing deno: %s">> \o @])
            ELSE Goto(<<>>, "curl_installer")
    /\ UNCHANGED <<cancelled, exitStatus, world, build, config, prepErrs, i, bundles,
                   remoteScripts, tmpCount, openFiles, written>>

----------------------------------------------------------------------------
(* The specification.                                                      *)

\* The sequences over S of length at most n.
SeqsUpTo(S, n) == UNION {[1..k -> S] : k \in 0..n}

Builds == {"main", "bundling"}
RemoteFolders == {NoPath, P2("opt", "work")}
LocalDenoBins == {NoPath, DenoBinOk, DenoBinGone}
Versions == {"", "v1.0.0"}

\* The raw configurations of a template.  src/main.go has neither NoBundle
\* nor target_deno_version.
RawConfigs(b) ==
    [Username : {""}, Password : {""},
     LocalDenoBin : LocalDenoBins,
     SkipInstall : BOOLEAN,
     SkipProvision : BOOLEAN,
     RemoteFolder : RemoteFolders,
     Scripts : SeqsUpTo(ScriptPaths, MaxScripts),
     NoBundle : IF b = "main" THEN {FALSE} ELSE BOOLEAN,
     TargetDenoVersion : IF b = "main" THEN {""} ELSE Versions,
     denoExecutable : {NoPath}]

\* The plugin process before Prepare.
RunInit ==
    /\ pc = "init"
    /\ prepErrs = <<>>
    /\ i = 1
    /\ bundles = <<>>
    /\ remoteScripts = <<>>
    /\ tmpCount = 0
    /\ openFiles = {}
    /\ written = {}
    /\ ops = <<>>
    /\ ret = [done |-> FALSE, err |-> NoErr]
    /\ cancelled = FALSE
    /\ ui = <<>>
    /\ exitStatus = -1

\* No other run on this host, and a target that is looked at only through
\* the results of the communicator.
WorldIdle ==
    /\ otherBundles = {}
    /\ target = [curl |-> FALSE, hadCurl |-> FALSE, managers |-> {}]
    /\ sh = ShIdle

Init ==
    /\ build \in Builds
    /\ config \in RawConfigs(build)
    /\ RunInit
    /\ WorldIdle

Next ==
    \/ Prepare
    \/ ProvisionBegin
    \/ BundleScript
    \/ CurlUploadScript
    \/ CurlRunScript
    \/ CurlInstaller
    \/ LocalMkdir
    \/ LocalUpload
    \/ LocalChmod
    \/ CreateRemoteDir
    \/ UploadScript
    \/ RunScript
    \/ Cancel

Spec == Init /\ [][Next]_vars

\* A run the host does not cancel, in which every call returns.
Steps ==
    \/ Prepare
    \/ ProvisionBegin
    \/ BundleScript
    \/ CurlUploadScript
    \/ CurlRunScript
    \/ CurlInstaller
    \/ LocalMkdir
    \/ LocalUpload
    \/ LocalChmod
    \/ CreateRemoteDir
    \/ UploadScript
    \/ RunScript

LiveSpec == Init /\ [][Steps]_vars /\ WF_vars(Steps)

\* This run next to other runs of the plugin on the same host.
HostConfigs ==
    [Username : {""}, Password : {""},
     LocalDenoBin : {NoPath, DenoBinOk},
     SkipInstall : BOOLEAN,
     SkipProvision : {FALSE},
     RemoteFolder : {NoPath},
     Scripts : SeqsUpTo({ScriptX1, ScriptX2}, MaxScripts),
     NoBundle : {FALSE},
     TargetDenoVersion : {""},
     denoExecutable : {NoPath}]

HostInit ==
    /\ build = "bundling"
    /\ config \in HostConfigs
    /\ RunInit
    /\ WorldIdle

HostNext == Next \/ OtherRunBundlePath

HostSpec == HostInit /\ [][HostNext]_vars

\* The curl install script on every kind of target.
Targets ==
    {[curl |-> c, hadCurl |-> c, managers |-> m] :
        c \in BOOLEAN,
        m \in SUBSET {PackageManagers[k] : k \in 1..Len(PackageManagers)}}

ScriptInit ==
    /\ build = "main"
    /\ config \in {c \in RawConfigs("main") :
                       /\ c.Scripts = <<ScriptX1>>
                       /\ c.LocalDenoBin = NoPath
                       /\ c.RemoteFolder = NoPath
                       /\ ~c.SkipInstall /\ ~c.SkipProvision}
    /\ RunInit
    /\ otherBundles = {}
    /\ target \in Targets
    /\ sh = [ShIdle EXCEPT !.pc = "start"]

ScriptNext ==
    \/ ShProbeCurl
    \/ ShSelectManager
    \/ ShUpdate
    \/ ShInstall
    \/ ShCheck

\* The network install on every kind of target, the result of the curl
\* install script being the one the target gives.
TargetInit ==
    /\ build = "main"
    /\ config \in {c \in RawConfigs("main") :
                       /\ c.Scripts = <<ScriptX1>>
                       /\ c.LocalDenoBin = NoPath
                       /\ c.RemoteFolder = NoPath
                       /\ ~c.SkipInstall /\ ~c.SkipProvision}
    /\ RunInit
    /\ otherBundles = {}
    /\ target \in Targets
    /\ sh = ShIdle

TargetNext ==
    \/ Prepare
    \/ ProvisionBegin
    \/ CurlUploadScript
    \/ ShLaunch
    \/ ShProbeCurl
    \/ ShSelectManager
    \/ ShUpdate
    \/ ShInstall
    \/ ShCheck
    \/ CurlRunScriptOnTarget
    \/ CurlInstaller

TargetSpec == TargetInit /\ [][TargetNext]_vars

ScriptSpec == ScriptInit /\ [][ScriptNext]_vars

----------------------------------------------------------------------------
(* What the record of calls shows.                                         *)

Started == pc \notin {"init", "rejected", "prepared"}
Succeeded == ret.done /\ ret.err = NoErr
Failed == ret.done /\ ret.err # NoErr

IsDenoRun(o) == o.op = "run" /\ o.cmd.name = "run -A"
IsBundlerOp(o) == o.op \in {"tempdir", "bundle"}
IsRemoteOp(o) == o.op \in {"upload", "run"}
IsCurlOp(o) ==
    \/ o.op = "upload" /\ o.dst = InstallCurlPath
    \/ o.op = "run" /\ o.cmd.name \in {"sh", "curl -fsSL %s | sh", "curl -fsSL %s | sh -s %s"}
IsLocalBinOp(o) ==
    \/ o.op = "upload" /\ o.src = config.LocalDenoBin /\ config.LocalDenoBin # NoPath
    \/ o.op = "run" /\ o.cmd.name = "chmod +x"
    \/ o.op = "run" /\ o.cmd.name = "mkdir -p" /\ o.cmd.arg = Dir(DenoExecutable)
IsInstallOp(o) == IsCurlOp(o) \/ IsLocalBinOp(o)
IsRemoteFolderMkdir(o) ==
    o.op = "run" /\ o.cmd.name = "mkdir -p" /\ o.cmd.arg = config.RemoteFolder
IsScriptUpload(o) ==
    o.op = "upload" /\ ~IsInstallOp(o) /\ Dir(o.dst) = config.RemoteFolder

DenoRuns == SelectSeq(ops, IsDenoRun)
ScriptUploads == SelectSeq(ops, IsScriptUpload)
CurlOps == SelectSeq(ops, IsCurlOp)
LocalBinOps == SelectSeq(ops, IsLocalBinOp)
BundlerRuns == SelectSeq(ops, LAMBDA o : o.op = "bundle")

\* The file name under which script src reaches the target.
RemoteName(src) ==
    IF build = "main" THEN Base(src) ELSE Base(src) \o <<".bundle.js">>

----------------------------------------------------------------------------
(* Claims.                                                                 *)

\* C1: in a successful run without skip_provision the run commands are one
\* per configured script, in the configured order, each
\* "<denoExecutable> run -A <remote path of the script>".
C1_RunsInConfiguredOrder ==
    (Succeeded /\ ~config.SkipProvision) =>
        /\ Len(DenoRuns) = Len(config.Scripts)
        /\ \A k \in 1..Len(DenoRuns) :
             /\ DenoRuns[k].cmd.exe = config.denoExecutable
             /\ DenoRuns[k].cmd.arg =
                    Join(config.RemoteFolder, RemoteName(config.Scripts[k]))
             /\ DenoRuns[k].ok

C1_Witness ==
    /\ Succeeded /\ ~config.SkipProvision
    /\ Len(config.Scripts) = MaxScripts
    /\ config.Scripts[1] # config.Scripts[MaxScripts]
    /\ Len(DenoRuns) = MaxScripts

\* C2: when the run command of a script returns an error or a non-zero exit
\* status, Provision returns an error and no command is issued after it.
C2_RunFailureStopsTheRun ==
    \A k \in 1..Len(ops) :
        (IsDenoRun(ops[k]) /\ ~ops[k].ok) => (k = Len(ops) /\ Failed)

C2_Witness ==
    /\ Len(DenoRuns) = 1
    /\ ~DenoRuns[1].ok /\ DenoRuns[1].code # 0
    /\ Len(remoteScripts) > 1
    /\ Failed

\* The phase of a recorded call: 1 bundle, 2 install, 3 create the remote
\* folder, 4 upload, 5 execute.
Phase(o) ==
    CASE IsBundlerOp(o) -> 1
      [] IsInstallOp(o) -> 2
      [] IsRemoteFolderMkdir(o) -> 3
      [] IsScriptUpload(o) -> 4
      [] IsDenoRun(o) -> 5
      [] OTHER -> 0

InstallComplete ==
    IF config.SkipInstall THEN TRUE
    ELSE IF config.LocalDenoBin = NoPath
    THEN Len(CurlOps) = 3 /\ \A k \in 1..3 : CurlOps[k].ok
    ELSE Len(LocalBinOps) = 3 /\ \A k \in 1..3 : LocalBinOps[k].ok

\* C3: the calls of a run are ordered Bundle, Install, CreateRemoteDir,
\* Upload, Execute, and a phase has calls only when every earlier phase is
\* complete and succeeded.
C3_PhasesInFixedOrder ==
    LET ph == [k \in 1..Len(ops) |-> Phase(ops[k])]
        last == IF Len(ops) = 0 THEN 0 ELSE ph[Len(ops)]
        mkdirs == {h \in 1..Len(ops) : ph[h] = 3}
    IN
    /\ \A k \in 1..Len(ops) :
        /\ ph[k] \in 1..5
        /\ k > 1 => (ph[k - 1] <= ph[k] /\ ops[k - 1].ok)
        /\ ph[k] >= 4 => \E j \in 1..(k - 1) : mkdirs = {j}
    /\ (last >= 2 /\ build = "bundling") => Len(BundlerRuns) = Len(config.Scripts)
    /\ last >= 3 => InstallComplete
    /\ last >= 5 => Len(ScriptUploads) = Len(config.Scripts)

C3_Witness ==
    /\ Succeeded
    /\ build = "bundling"
    /\ ~config.SkipInstall /\ ~config.SkipProvision
    /\ Len(config.Scripts) = MaxScripts
    /\ \A p \in 1..5 : \E k \in 1..Len(ops) : Phase(ops[k]) = p

\* C4: with skip_provision no run command is ever issued, and once every
\* configured script is uploaded (one manifest entry per script) Provision
\* returns success.
C4_SkipProvisionUploadsOnly ==
    (Started /\ config.SkipProvision) =>
        /\ Len(DenoRuns) = 0
        /\ Succeeded =>
              /\ Len(remoteScripts) = Len(config.Scripts)
              /\ Len(ScriptUploads) = Len(config.Scripts)
              /\ \A k \in 1..Len(ScriptUploads) : ScriptUploads[k].ok
        /\ Len(remoteScripts) = Len(config.Scripts) => Succeeded

C4_Witness ==
    /\ config.SkipProvision
    /\ Succeeded
    /\ Len(config.Scripts) = MaxScripts
    /\ Len(remoteScripts) = MaxScripts
    /\ Len(DenoRuns) = 0

\* C5: Prepare returns an error whenever skip_install is true and
\* local_deno_bin is set, whether or not the binary exists; no accepted
\* configuration has both.
C5_SkipInstallExcludesLocalBin ==
    (pc # "init" /\ config.SkipInstall /\ config.LocalDenoBin # NoPath) =>
        /\ pc = "rejected"
        /\ Len(prepErrs) > 0

C5_Witness ==
    /\ pc = "rejected"
    /\ config.SkipInstall
    /\ config.LocalDenoBin = DenoBinOk
    /\ prepErrs = <<PErr("if local_deno_bin is set, skip_install cannot be true", NoPath)>>

InChain(e, text) == \E j \in 1..Len(e.chain) : e.chain[j] = text
InstallFailure == Failed /\ InChain(ret.err, "error installing deno: %s")

\* C6: the install calls of a run are those of the one strategy the
\* configuration selects: none with skip_install, only the network install
\* with local_deno_bin empty, only the binary upload with local_deno_bin set;
\* a run that gets past the install phase has made every call of it.
C6_OneInstallStrategy ==
    Started =>
        /\ \A k \in 1..Len(ops) :
             /\ config.SkipInstall => ~IsInstallOp(ops[k])
             /\ (~config.SkipInstall /\ config.LocalDenoBin = NoPath) =>
                    ~IsLocalBinOp(ops[k])
             /\ (~config.SkipInstall /\ config.LocalDenoBin # NoPath) =>
                    ~IsCurlOp(ops[k])
        /\ (Len(CurlOps) = 0 \/ Len(LocalBinOps) = 0)
        /\ (\E k \in 1..Len(ops) : IsRemoteFolderMkdir(ops[k])) =>
               Len(CurlOps) + Len(LocalBinOps) = IF config.SkipInstall THEN 0 ELSE 3

C6_Witness ==
    /\ Succeeded
    /\ ~config.SkipInstall /\ config.LocalDenoBin = DenoBinOk
    /\ Len(LocalBinOps) = 3 /\ Len(CurlOps) = 0

\* C7: a failed install step is the last call of the run, Provision returns
\* the error "error installing deno", and a run that ended with this error
\* has created no remote folder, uploaded no script and run none.
C7_InstallFailureIsFatal ==
    /\ \A k \in 1..Len(ops) :
         (IsInstallOp(ops[k]) /\ ~ops[k].ok) => (k = Len(ops) /\ InstallFailure)
    /\ InstallFailure =>
         \A k \in 1..Len(ops) :
             ~IsRemoteFolderMkdir(ops[k]) /\ ~IsScriptUpload(ops[k]) /\ ~IsDenoRun(ops[k])

C7_Witness ==
    /\ InstallFailure
    /\ Len(LocalBinOps) = 3
    /\ ~LocalBinOps[3].ok

\* The k-th call of the network install.
ExpectedCurlOp(k, o) ==
    CASE k = 1 -> o.op = "upload" /\ o.dst = P2("tmp", "install_curl.sh")
                  /\ o.src = InstallCurlBuf
      [] k = 2 -> o.op = "run" /\ o.cmd.name = "sh"
                  /\ o.cmd.arg = P2("tmp", "install_curl.sh")
      [] k = 3 -> o.op = "run" /\ o.cmd.arg = BootstrapURL
                  /\ o.cmd.name \in {"curl -fsSL %s | sh", "curl -fsSL %s | sh -s %s"}
      [] OTHER -> FALSE

\* The text by which the error of the k-th call of the network install
\* names the step.
CurlStepLabel(k) ==
    CASE k = 1 -> "error uploading curl install script: %v"
      [] k = 2 -> "curl install script"
      [] OTHER -> "installer script"

CurlOrderAndFailFast ==
    /\ Len(CurlOps) <= 3
    /\ \A k \in 1..Len(CurlOps) :
         /\ ExpectedCurlOp(k, CurlOps[k])
         /\ k < Len(CurlOps) => CurlOps[k].ok
         /\ ~CurlOps[k].ok => (ops[Len(ops)] = CurlOps[k] /\ InstallFailure)

ExpectedLocalBinOp(k, o) ==
    CASE k = 1 -> o.op = "run" /\ o.cmd.name = "mkdir -p"
                  /\ o.cmd.arg = Dir(config.denoExecutable)
      [] k = 2 -> o.op = "upload" /\ o.dst = config.denoExecutable
                  /\ o.src = config.LocalDenoBin
      [] k = 3 -> o.op = "run" /\ o.cmd.name = "chmod +x"
                  /\ o.cmd.arg = config.denoExecutable
      [] OTHER -> FALSE

C10_BundleFailureStopsTheRun ==
    \A k \in 1..Len(ops) :
        (IsBundlerOp(ops[k]) /\ ~ops[k].ok) =>
            /\ k = Len(ops)
            /\ Failed
            /\ \A j \in 1..Len(ops) : ~IsRemoteOp(ops[j])

C10_Witness ==
    /\ Failed
    /\ Len(config.Scripts) = MaxScripts
    /\ Len(bundles) = 0
    /\ Len(BundlerRuns) = 1 /\ ~BundlerRuns[1].ok
    /\ InChain(ret.err, "error bundling %s: %v")

UploadFailure == Failed /\ InChain(ret.err, "error uploading deno script: %s")
RemoteFolderCreated ==
    \E h \in 1..Len(ops) : IsRemoteFolderMkdir(ops[h]) /\ ops[h].ok
Decoded == pc # "init" /\ config.denoExecutable # NoPath
PrepErrSet == {prepErrs[k] : k \in 1..Len(prepErrs)}

\* C11: when the bundler reports success and leaves no file at its output
\* path, the run has issued no upload of any kind.
C11_MissingBundleFailsBeforeUpload ==
    (\E k \in 1..Len(ops) :
        ops[k].op = "bundle" /\ ops[k].ok /\ ops[k].dst \notin written)
    => \A j \in 1..Len(ops) : ops[j].op # "upload"

\* C12: with NoBundle the bundler is never called and each script is
\* uploaded as itself to remote_folder joined with its file name.
C12_NoBundleUploadsSources ==
    (Started /\ config.NoBundle) =>
        LET ups == ScriptUploads IN
        /\ \A k \in 1..Len(ops) : ~IsBundlerOp(ops[k])
        /\ \A k \in 1..Len(ups) :
             /\ ups[k].src = config.Scripts[k]
             /\ ups[k].dst = Join(config.RemoteFolder, Base(config.Scripts[k]))

\* C13: a failed script upload is the last call of the run and Provision
\* returns an error; a run that ended on an upload error (open, transfer or
\* close) has uploaded no later script and issued no run command.
C13_UploadFailureStopsTheRun ==
    /\ \A k \in 1..Len(ops) :
         (IsScriptUpload(ops[k]) /\ ~ops[k].ok) => (k = Len(ops) /\ UploadFailure)
    /\ UploadFailure =>
         /\ Len(DenoRuns) = 0
         /\ Len(remoteScripts) < Len(Artifacts)
         /\ Len(ScriptUploads) <= Len(remoteScripts) + 1

C13_Witness ==
    /\ UploadFailure
    /\ Len(remoteScripts) = 1
    /\ Len(ScriptUploads) = 2
    /\ ScriptUploads[1].ok /\ ~ScriptUploads[2].ok

\* C14: the paths of the manifest are the destinations of the successful
\* script uploads, in upload order, and every run command is given a path
\* that an upload earlier in the run succeeded on: the k-th run command the
\* k-th manifest entry.
C14_RunsOnlyUploadedPaths ==
    LET okups == SelectSeq(ScriptUploads, LAMBDA o : o.ok)
        runs == DenoRuns
    IN
    /\ Len(remoteScripts) <= Len(okups)
    /\ Len(okups) <= Len(remoteScripts) + 1
    /\ \A k \in 1..Len(remoteScripts) : remoteScripts[k] = okups[k].dst
    /\ Len(runs) <= Len(remoteScripts)
    /\ \A k \in 1..Len(runs) : runs[k].cmd.arg = remoteScripts[k]
    /\ \A j \in 1..Len(ops) :
         IsDenoRun(ops[j]) =>
             \E h \in 1..(j - 1) :
                 IsScriptUpload(ops[h]) /\ ops[h].ok /\ ops[h].dst = ops[j].cmd.arg

C14_Witness ==
    /\ Len(DenoRuns) = MaxScripts
    /\ Len(remoteScripts) = MaxScripts
    /\ remoteScripts[1] # remoteScripts[MaxScripts]
    /\ config.RemoteFolder = P2("opt", "work")

NotRegularErr(path) ==
    [chain |-> <<"%s is not a regular file">>, code |-> 0, path |-> path,
     cmd |-> NoCmd]
IsDirectoryErr(path) ==
    [chain |-> <<"%s is a directory, expected deno script">>, code |-> 0,
     path |-> path, cmd |-> NoCmd]

C17_RemoteFolderCreatedOnce ==
    LET mk == {h \in 1..Len(ops) : IsRemoteFolderMkdir(ops[h])} IN
    /\ Cardinality(mk) <= 1
    /\ (pc \in {"upload", "execute"} \/ Len(ScriptUploads) > 0) =>
           \E h \in mk :
               /\ ops[h].ok
               /\ \A j \in 1..Len(ops) : IsScriptUpload(ops[j]) => h < j
    /\ \A h \in mk :
           ~ops[h].ok =>
               /\ h = Len(ops)
               /\ Failed
               /\ InChain(ret.err, "error creating remote directory: %s")
               /\ Len(ScriptUploads) = 0

C17_Witness ==
    /\ Failed
    /\ InChain(ret.err, "error creating remote directory: %s")
    /\ ~config.SkipInstall
    /\ Len(ops) > 1
    /\ ops[Len(ops)].cmd.arg = DefaultRemoteFolder

\* The number of validation rules a configuration violates.
Violations(cfg) ==
    (IF cfg.LocalDenoBin # NoPath /\ SourceKind(cfg.LocalDenoBin) = "missing"
     THEN 1 ELSE 0)
    + (IF cfg.LocalDenoBin # NoPath /\ cfg.SkipInstall THEN 1 ELSE 0)
    + (IF Len(cfg.Scripts) = 0 THEN 1 ELSE 0)
    + Cardinality({k \in 1..Len(cfg.Scripts) :
                       SourceKind(cfg.Scripts[k]) = "missing"})

\* C18: the error list of Prepare has one entry per violated rule (missing
\* local_deno_bin, skip_install with local_deno_bin, no script, each script
\* path that does not exist), and Prepare returns no error exactly when no
\* rule is violated.
C18_PrepareCollectsEveryViolation ==
    Decoded =>
        /\ Len(prepErrs) = Violations(config)
        /\ (pc = "rejected") <=> (Violations(config) > 0)
        /\ \A k \in 1..Len(config.Scripts) :
             SourceKind(config.Scripts[k]) = "missing" =>
                 PErr("bad script", config.Scripts[k]) \in PrepErrSet

C18_Witness ==
    /\ Decoded
    /\ pc = "rejected"
    /\ Len(config.Scripts) = MaxScripts
    /\ Len(prepErrs) = MaxScripts + 2

\* C19: Prepare rejects a configuration without scripts, so a prepared
\* provisioner has at least one script.
C19_ScriptsNeverEmpty ==
    /\ pc \notin {"init", "rejected"} => Len(config.Scripts) > 0
    /\ (Decoded /\ Len(config.Scripts) = 0) =>
           /\ pc = "rejected"
           /\ PErr("at least one script must be specified", NoPath) \in PrepErrSet

C19_Witness ==
    /\ Decoded
    /\ pc = "rejected"
    /\ prepErrs = <<PErr("at least one script must be specified", NoPath)>>

C21_FailureToldToUi ==
    Failed => \E k \in 1..Len(ui) : ui[k].kind = "error"

\* C21, amended: Provision sends the ui progress messages only (Say and
\* Message), never a failure message; a failure is an error value, with the
\* text of the failed step, returned to the caller.
C21_FailureReturnedNotTold ==
    /\ \A k \in 1..Len(ui) : ui[k].kind \in {"say", "message"}
    /\ Failed => Len(ret.err.chain) > 0
    /\ ret.done => Len(ui) > 0

C21_Witness ==
    /\ Failed
    /\ InChain(ret.err, "error running deno: %s")
    /\ Len(ui) > 3
    /\ ui[Len(ui)] = Say("%s run -A %s")

\* The texts with which Provision names the phase of an error.
PhaseTexts ==
    {"error installing deno: %s",
     "could not run: deno bundle %s %s: %v", "error bundling %s: %v",
     "error uploading deno script: %s",
     "error running deno: %s"}

\* C22: every error Provision returns starts with the text of its phase
\* (install, bundle, upload or execute) and carries the offending script or
\* command.
C22_ErrorsNameThePhase ==
    Failed =>
        /\ ret.err.chain[1] \in PhaseTexts
        /\ (ret.err.path # NoPath \/ ret.err.cmd # NoCmd)

\* C23 as stated: Provision returns nil only when its last call was the run
\* command of the last manifest entry, which exited with status 0.
C23_SuccessOnlyAfterLastRun ==
    Succeeded =>
        /\ Len(ops) > 0 /\ Len(remoteScripts) > 0
        /\ IsDenoRun(ops[Len(ops)])
        /\ ops[Len(ops)].ok
        /\ ops[Len(ops)].cmd.arg = remoteScripts[Len(remoteScripts)]

\* C23, amended: Provision returns nil only after every script has been
\* uploaded, and then either skip_provision is set and nothing was run, or
\* every manifest entry was run with exit status 0, the last call being the
\* run of the last entry.
C23_SuccessPaths ==
    Succeeded =>
        LET runs == DenoRuns
            n == Len(remoteScripts)
            last == ops[Len(ops)]
        IN
        /\ n = Len(config.Scripts) /\ n > 0
        /\ IF config.SkipProvision
           THEN /\ Len(runs) = 0
                /\ IsScriptUpload(last) /\ last.ok /\ last.dst = remoteScripts[n]
           ELSE /\ Len(runs) = n
                /\ \A k \in 1..n : runs[k].ok /\ runs[k].code = 0
                /\ IsDenoRun(last) /\ last.cmd.arg = remoteScripts[n]

C23_Witness ==
    /\ Succeeded
    /\ config.SkipProvision
    /\ Len(remoteScripts) = MaxScripts
    /\ Len(DenoRuns) = 0

\* C24: the upload of the local deno binary goes into remote_folder.
C24_LocalBinUploadedToRemoteFolder ==
    config.LocalDenoBin # NoPath =>
        \A k \in 1..Len(ops) :
            (ops[k].op = "upload" /\ ops[k].src = config.LocalDenoBin) =>
                Dir(ops[k].dst) = config.RemoteFolder

\* C25: with local_deno_bin the executable of every bundler call is that
\* binary.
C25_BundlesWithLocalBin ==
    config.LocalDenoBin # NoPath =>
        \A k \in 1..Len(ops) :
            ops[k].op = "bundle" => ops[k].cmd.exe = config.LocalDenoBin

IsInstallerRun(o) ==
    o.op = "run" /\ o.cmd.name \in {"curl -fsSL %s | sh", "curl -fsSL %s | sh -s %s"}

\* C26: the bootstrap installer command is "curl -fsSL <url> | sh -s
\* <version>" with the configured target_deno_version when there is one and
\* "curl -fsSL <url> | sh" when there is none; with local_deno_bin no remote
\* command holds a version.
C26_VersionPassedToInstaller ==
    /\ \A k \in 1..Len(ops) :
         IsInstallerRun(ops[k]) =>
             /\ config.LocalDenoBin = NoPath
             /\ ops[k].cmd.arg = BootstrapURL
             /\ ops[k].cmd.version = config.TargetDenoVersion
             /\ (ops[k].cmd.name = "curl -fsSL %s | sh -s %s")
                    <=> (config.TargetDenoVersion # "")
    /\ config.LocalDenoBin # NoPath =>
           \A k \in 1..Len(ops) : ops[k].cmd.version = ""

C26_Witness ==
    /\ config.TargetDenoVersion = "v1.0.0"
    /\ \E k \in 1..Len(ops) :
           /\ IsInstallerRun(ops[k])
           /\ ops[k].ok
           /\ ops[k].cmd.version = "v1.0.0"
    /\ Succeeded

\* C27: the bundle paths of a run are pairwise distinct, the scripts with
\* the same file name included, and none is a path BundlePath gave to
\* another run; what the run bundles to and uploads are its own paths.
C27_BundlePathsDistinct ==
    /\ \A j \in 1..Len(bundles) : \A k \in 1..Len(bundles) :
         j # k => bundles[j] # bundles[k]
    /\ \A k \in 1..Len(bundles) : bundles[k] \notin otherBundles
    /\ \A k \in 1..Len(ops) :
         /\ ops[k].op = "bundle" => ops[k].dst \notin otherBundles
         /\ ops[k].op = "upload" => ops[k].src \notin otherBundles

C27_Witness ==
    /\ Len(bundles) = MaxScripts
    /\ Base(bundles[1]) = Base(bundles[MaxScripts])
    /\ otherBundles # {}
    /\ \E p \in otherBundles : Base(p) = Base(bundles[1])
    /\ Len(ScriptUploads) = MaxScripts

\* The temporary directories of this run on the local disk: those
\* ioutil.TempDir made for it, as Provision removes none.
TempDirsLeft ==
    {ops[k].dst : k \in {h \in 1..Len(ops) : ops[h].op = "tempdir" /\ ops[h].ok}}

\* C28: when Provision has returned, no temporary directory and no bundle
\* file of the run is left on the local disk.
C28_TempDirsDiscarded ==
    ret.done =>
        /\ TempDirsLeft = {}
        /\ \A k \in 1..Len(bundles) : bundles[k] \notin written

\* The first package manager of the probing order that the target has.
FirstAvailable ==
    LET avail == {k \in 1..Len(PackageManagers) :
                      PackageManagers[k] \in target.managers} IN
    IF avail = {} THEN ""
    ELSE PackageManagers[CHOOSE k \in avail : \A h \in avail : k <= h]

\* C29: the script calls no package manager when curl was there; when curl
\* was missing every package manager command it runs is of the first
\* available of apt-get, yum, apk, and when none is available the script
\* exits with status 1 without having run any.
C29_FirstPackageManagerOnly ==
    /\ \A k \in 1..Len(sh.used) :
         /\ ~target.hadCurl
         /\ sh.used[k].pm = FirstAvailable
         /\ sh.used[k].pm # ""
    /\ (sh.pc = "exit" /\ ~target.hadCurl) =>
         IF FirstAvailable = ""
         THEN sh.exit = 1 /\ sh.used = <<>>
         ELSE /\ Len(sh.used) > 0
              /\ sh.used[Len(sh.used)] \in
                     {ShCommand(FirstAvailable, "install", ok) : ok \in BOOLEAN}
    /\ (sh.pc = "exit" /\ target.hadCurl) => (sh.used = <<>> /\ sh.exit = 0)

C29_Witness ==
    /\ sh.pc = "exit"
    /\ ~target.hadCurl
    /\ target.managers = {"yum", "apk"}
    /\ sh.used = <<ShCommand("yum", "update", TRUE), ShCommand("yum", "install", TRUE)>>
    /\ sh.exit = 0

\* The place of a position of Provision in its single pass.
PcRank(p) ==
    CASE p \in {"init", "rejected", "prepared"} -> 0
      [] p = "bundle" -> 1
      [] p \in {"curl_upload", "local_mkdir"} -> 2
      [] p \in {"curl_script", "local_upload"} -> 3
      [] p \in {"curl_installer", "local_chmod"} -> 4
      [] p = "mkdir" -> 5
      [] p = "upload" -> 6
      [] p = "execute" -> 7
      [] OTHER -> 8

\* The most calls a run with this configuration makes: two per script to
\* bundle, three to install, one mkdir, one upload and one run per script.
MaxOps ==
    LET n == Len(config.Scripts) IN
    (IF build = "bundling" THEN 2 * n ELSE 0)
    + (IF config.SkipInstall THEN 0 ELSE 3)
    + 1 + n
    + (IF config.SkipProvision THEN 0 ELSE n)

\* C30: when every call returns, a run of Provision ends (it returns nil or
\* an error); it never goes back to an earlier phase, and it makes at most
\* MaxOps <= 4 * len(scripts) + 4 calls.
C30_SinglePassTerminates ==
    /\ (pc = "prepared") ~> ret.done
    /\ [][PcRank(pc') >= PcRank(pc)]_vars
    /\ [](Len(ops) <= MaxOps /\ MaxOps <= 4 * Len(config.Scripts) + 4)

C30_Witness ==
    /\ Succeeded
    /\ build = "bundling"
    /\ Len(config.Scripts) = MaxScripts
    /\ Len(ops) = 4 * MaxScripts + 4

\* The upload of a script or of its bundle: any upload that is not the curl
\* install script and not the local deno binary.
IsArtifactUpload(o) ==
    /\ o.op = "upload"
    /\ o.src # InstallCurlBuf
    /\ (config.LocalDenoBin = NoPath \/ o.src # config.LocalDenoBin)

\* C31: every script or bundle is uploaded to remote_folder joined with the
\* file name of the local path: the destination is one component longer
\* than remote_folder, whatever the local directory.
C31_DestinationIsFolderPlusBase ==
    \A k \in 1..Len(ops) :
        IsArtifactUpload(ops[k]) =>
            /\ Len(ops[k].dst) = Len(config.RemoteFolder) + 1
            /\ SubSeq(ops[k].dst, 1, Len(config.RemoteFolder)) = config.RemoteFolder
            /\ ops[k].dst[Len(ops[k].dst)] = ops[k].src[Len(ops[k].src)]

C31_Witness ==
    /\ config.RemoteFolder = P2("opt", "work")
    /\ \E k \in 1..Len(ops) :
           /\ IsArtifactUpload(ops[k])
           /\ ops[k].ok
           /\ ops[k].src = ScriptX2
           /\ ops[k].dst = <<Root, <<"opt">>, <<"work">>, <<"x.ts">>>>

\* C32: two different configured scripts never get the same remote path.
C32_DistinctScriptsDistinctRemotePaths ==
    \A j \in 1..Len(remoteScripts) : \A k \in 1..Len(remoteScripts) :
        (j # k /\ config.Scripts[j] # config.Scripts[k]) =>
            remoteScripts[j] # remoteScripts[k]

\* C33: with local_deno_bin, the path the binary is uploaded to, the path
\* made executable and the executable of every run command are one path,
\* and its directory is the one created for it.
C33_InstalledPathIsRunPath ==
    config.LocalDenoBin # NoPath =>
        LET exes == {ops[k].dst : k \in {h \in 1..Len(ops) :
                         ops[h].op = "upload" /\ ops[h].src = config.LocalDenoBin}}
                    \cup {ops[k].cmd.arg : k \in {h \in 1..Len(ops) :
                         ops[h].op = "run" /\ ops[h].cmd.name = "chmod +x"}}
                    \cup {ops[k].cmd.exe : k \in {h \in 1..Len(ops) :
                         IsDenoRun(ops[h])}}
        IN
        /\ Cardinality(exes) <= 1
        /\ \A k \in 1..Len(ops) :
             IsDenoRun(ops[k]) =>
                 \E h \in 1..(k - 1) :
                     /\ ops[h].op = "upload" /\ ops[h].ok
                     /\ ops[h].src = config.LocalDenoBin
                     /\ ops[h].dst = ops[k].cmd.exe

C33_Witness ==
    /\ config.LocalDenoBin = DenoBinOk
    /\ config.RemoteFolder = P2("opt", "work")
    /\ Succeeded
    /\ Len(DenoRuns) = MaxScripts
    /\ Len(LocalBinOps) = 3

\* C35: when Provision has returned, no local file uploadFile opened is
\* still open.
C35_NoFileLeftOpen ==
    ret.done => openFiles = {}

\* C34: the script exits with status 0 only when curl is executable at its
\* end, so after a failed install of curl it exits with status 1; and the
\* bootstrap installer command is issued only after the script has exited
\* with status 0 on a target that has curl.
C34_InstallerOnlyWithCurl ==
    /\ (sh.pc = "exit" /\ sh.exit = 0) => target.curl
    /\ (sh.pc = "exit" /\ Len(sh.used) > 0 /\ ~sh.used[Len(sh.used)].ok) =>
           sh.exit = 1
    /\ \A k \in 1..Len(ops) :
         IsInstallerRun(ops[k]) =>
             /\ target.curl
             /\ sh.pc = "exit" /\ sh.exit = 0
             /\ k > 1 /\ ops[k - 1].cmd = ShCurlCmd /\ ops[k - 1].ok

C34_Witness ==
    /\ ~target.hadCurl
    /\ sh.used = <<ShCommand("apt-get", "update", FALSE),
                   ShCommand("apt-get", "install", TRUE)>>
    /\ \E k \in 1..Len(ops) : IsInstallerRun(ops[k]) /\ ops[k].ok

====
